---- MODULE Spec2Model ----
(***************************************************************************)
(* Model of src/plugins/chat/chat_stream.py: ChatStream (the stream        *)
(* record) and ChatManager (the identity-keyed cache over the chat_streams *)
(* collection).                                                            *)
(*                                                                         *)
(* Scheduling.  ChatManager runs on one asyncio event loop.  A coroutine   *)
(* gives up the loop only at an await that suspends.  _save_stream         *)
(* contains no await and the pymongo calls are synchronous, so             *)
(* `await self._save_stream(stream)` runs to completion without            *)
(* suspending: get_or_create_stream, _save_all_streams and                 *)
(* load_all_streams each run as one uninterrupted step, and the only       *)
(* suspension point of the module is asyncio.sleep(300) in                 *)
(* _auto_save_task.  Concurrency is therefore the order in which the loop  *)
(* runs the pending coroutines, and each handler is one action.            *)
(*                                                                         *)
(* Strings are sequences of one-character strings, so that "_".join is     *)
(* real concatenation.  Python objects are records with a cls field,       *)
(* dicts are functions from key strings, None is the record None.          *)
(***************************************************************************)
EXTENDS Integers, Sequences, FiniteSets, TLC

\* ------------------------------------------------------------------ bounds

\* the clock int(time.time()) takes the values 0..MaxTime
MaxTime == 1

\* number of get_or_create_stream coroutines created before any record of
\* their identity exists and followed to their end
NumCalls == 2

\* ------------------------------------------------------------- python values

None == [cls |-> "NoneType"]

\* truth value of an object, a dict or None (`if x`): None and {} are false
Truthy(x) == x /= None /\ DOMAIN x /= {}

\* dict.get(key, default)
Get(d, key, default) == IF key \in DOMAIN d THEN d[key] ELSE default

\* sep.join(components)
RECURSIVE Join(_, _)
Join(components, sep) ==
  IF Len(components) = 0 THEN << >>
  ELSE IF Len(components) = 1 THEN Head(components)
  ELSE Head(components) \o sep \o Join(Tail(components), sep)

\* ---------------------------------------------- message_base (UserInfo, GroupInfo)

UserInfo(user_id, user_nickname) ==
  [cls |-> "UserInfo", user_id |-> user_id, user_nickname |-> user_nickname]

GroupInfo(group_id) == [cls |-> "GroupInfo", group_id |-> group_id]

\* UserInfo.to_dict / GroupInfo.to_dict: the fields as a dict
InfoToDict(o) == [k \in DOMAIN o \ {"cls"} |-> o[k]]

\* UserInfo(**d) / GroupInfo(**d): the dict's entries as the object's fields
UserInfoFromDict(d) ==
  [k \in DOMAIN d \cup {"cls"} |-> IF k = "cls" THEN "UserInfo" ELSE d[k]]

GroupInfoFromDict(d) ==
  [k \in DOMAIN d \cup {"cls"} |-> IF k = "cls" THEN "GroupInfo" ELSE d[k]]

\* ------------------------------------------------------------------ ChatStream

\* ChatStream.__init__ that takes no times from data
ChatStreamInitNow(stream_id, platform, user_info, group_info, data, t) ==
  [stream_id        |-> stream_id,
   platform         |-> platform,
   user_info        |-> user_info,
   group_info       |-> group_info,
   create_time      |-> t,
   last_active_time |-> t,
   saved            |-> FALSE]

\* ChatStream.__init__ at clock value t
ChatStreamInit(stream_id, platform, user_info, group_info, data, t) ==
  LET create_time == IF Truthy(data) THEN Get(data, "create_time", t) ELSE t
  IN [stream_id        |-> stream_id,
      platform         |-> platform,
      user_info        |-> user_info,
      group_info       |-> group_info,
      create_time      |-> create_time,
      last_active_time |-> IF Truthy(data)
                             THEN Get(data, "last_active_time", create_time)
                             ELSE create_time,
      saved            |-> FALSE]

\* to_dict that writes create_time for last_active_time
ToDictNoActive(stream) ==
  [stream_id        |-> stream.stream_id,
   platform         |-> stream.platform,
   user_info        |-> IF Truthy(stream.user_info)
                          THEN InfoToDict(stream.user_info) ELSE None,
   group_info       |-> IF Truthy(stream.group_info)
                          THEN InfoToDict(stream.group_info) ELSE None,
   create_time      |-> stream.create_time,
   last_active_time |-> stream.create_time]

\* ChatStream.to_dict
ToDict(stream) ==
  [stream_id        |-> stream.stream_id,
   platform         |-> stream.platform,
   user_info        |-> IF Truthy(stream.user_info)
                          THEN InfoToDict(stream.user_info) ELSE None,
   group_info       |-> IF Truthy(stream.group_info)
                          THEN InfoToDict(stream.group_info) ELSE None,
   create_time      |-> stream.create_time,
   last_active_time |-> stream.last_active_time]

\* from_dict that hands no data to the constructor
FromDictFresh(data, t) ==
  LET user_info  == IF Truthy(Get(data, "user_info", None))
                      THEN UserInfoFromDict(data["user_info"]) ELSE None
      group_info == IF Truthy(Get(data, "group_info", None))
                      THEN GroupInfoFromDict(data["group_info"]) ELSE None
  IN ChatStreamInit(data["stream_id"], data["platform"], user_info, group_info,
                    None, t)

\* ChatStream.from_dict at clock value t
FromDict(data, t) ==
  LET user_info  == IF Truthy(Get(data, "user_info", None))
                      THEN UserInfoFromDict(data["user_info"]) ELSE None
      group_info == IF Truthy(Get(data, "group_info", None))
                      THEN GroupInfoFromDict(data["group_info"]) ELSE None
  IN ChatStreamInit(data["stream_id"], data["platform"], user_info, group_info,
                    data, t)

\* update_active_time that leaves saved as it is
UpdateActiveTimeKeepsSaved(stream, t) ==
  [stream EXCEPT !.last_active_time = t]

\* ChatStream.update_active_time at clock value t
UpdateActiveTime(stream, t) ==
  [stream EXCEPT !.last_active_time = t, !.saved = FALSE]

\* ------------------------------------------------------- identity derivation

\* the no-group component "private"
Private == <<"p", "r", "i", "v", "a", "t", "e">>

\* hashlib.md5(key.encode()).hexdigest(), taken as injective: the digest of a
\* key is the key under a tag
MD5(key) == <<"md5", key>>

\* None in a slot that otherwise holds a string (a sequence of characters):
\* the one sequence whose element is not a character
NoneStr == <<"NoneType">>

\* str(x) for a string, which it leaves alone, and for None
Str(x) == IF x = NoneStr THEN <<"N", "o", "n", "e">> ELSE x

\* user_info.user_id raises AttributeError when user_info is None
NoUserId(user_info) == user_info = None

\* ChatManager._generate_stream_id, for a user_info that is an object
GenerateStreamId(platform, user_info, group_info) ==
  LET components == << platform,
                       Str(user_info.user_id),
                       IF Truthy(group_info) THEN Str(group_info.group_id)
                                             ELSE Private >>
      key == Join(components, <<"_">>)
  IN MD5(key)

\* ------------------------------------------------ the dict ChatManager.streams
\* a Python dict keeps insertion order: a sequence of [k, v] entries

DictKeys(d) == {d[i].k : i \in 1..Len(d)}

DictHas(d, key) == key \in DictKeys(d)

DictGet(d, key) == d[CHOOSE i \in 1..Len(d) : d[i].k = key].v

\* d[key] = value: a present key keeps its position, a new one goes last
DictSet(d, key, value) ==
  IF DictHas(d, key)
    THEN [i \in 1..Len(d) |-> IF d[i].k = key THEN [k |-> key, v |-> value]
                                              ELSE d[i]]
    ELSE Append(d, [k |-> key, v |-> value])

\* ------------------------------------------- the collection db.chat_streams
\* a sequence of documents in natural order, stream_id unique

CollIds(coll) == {coll[i]["stream_id"] : i \in 1..Len(coll)}

\* find_one({"stream_id": stream_id})
FindOne(coll, stream_id) ==
  IF stream_id \in CollIds(coll)
    THEN coll[CHOOSE i \in 1..Len(coll) : coll[i]["stream_id"] = stream_id]
    ELSE None

\* {"$set": fields} applied to a document
SetFields(doc, fields) ==
  [k \in DOMAIN doc \cup DOMAIN fields |->
     IF k \in DOMAIN fields THEN fields[k] ELSE doc[k]]

\* update_one({"stream_id": stream_id}, {"$set": fields}, upsert=True)
UpdateOne(coll, stream_id, fields) ==
  IF stream_id \in CollIds(coll)
    THEN [i \in 1..Len(coll) |->
            IF coll[i]["stream_id"] = stream_id THEN SetFields(coll[i], fields)
                                                ELSE coll[i]]
    ELSE Append(coll, SetFields([stream_id |-> stream_id], fields))

\* ------------------------------------------------------------------ inputs

Platforms == {<<"q", "q">>}

UserIds == {<<"1">>}

Nicknames == {"a", "b"}

GroupIds == {<<"7">>}

\* the arguments of a get_or_create_stream call
CallArgs ==
  [platform   : Platforms,
   user_info  : {UserInfo(u, n) : u \in UserIds, n \in Nicknames},
   group_info : {None} \cup {GroupInfo(g) : g \in GroupIds}]

ArgsId(a) == GenerateStreamId(a.platform, a.user_info, a.group_info)

\* documents an earlier run of the process left in the collection: streams
\* created at time 0 and saved
InitDocs ==
  {ToDict(ChatStreamInit(ArgsId(a), a.platform, a.user_info, a.group_info,
                         None, 0)) :
     a \in {b \in CallArgs : b.user_info.user_nickname = "a"}}

InitColls ==
  {s \in UNION {[1..n -> InitDocs] : n \in 0..Cardinality(InitDocs)} :
     \A i, j \in 1..Len(s) : s[i]["stream_id"] = s[j]["stream_id"] => i = j}

StreamIds == {ArgsId(a) : a \in CallArgs}

\* ------------------------------------------------------------------- state

VARIABLES
  streams,     \* ChatManager.streams: ordered dict stream_id -> reference
  heap,        \* the ChatStream objects; a reference is an index
  coll,        \* the chat_streams collection
  now,         \* int(time.time())
  loaded,      \* the _initialize task has run
  saver,       \* the _auto_save_task task: "sleeping" in its loop, or "dead"
  first,       \* per stream id, the calls created before any record of it
  writeFailed, \* stream ids whose latest update_one raised
  ev,          \* the operation that produced this state and its outcome
  probe        \* a pair of identity tuples with their derived ids

vars ==
  <<streams, heap, coll, now, loaded, saver, first, writeFailed, ev, probe>>

\* pending: coroutines created and not yet run; returned, raised: those that
\* have run; rets: the references returned; writes: the update_one calls of
\* these coroutines that reached the collection
NoFirst == [pending |-> 0, returned |-> 0, raised |-> 0, rets |-> {},
            writes |-> 0]

\* op: the handler; path: the branch of get_or_create_stream; err: the store
\* call that raised; raised: the handler ended by the exception; ref: the
\* stream of the call; args: its arguments; attempted: the stream ids for
\* which _save_all_streams called update_one
NoEv == [op |-> "none", path |-> "none", err |-> "none", raised |-> FALSE,
         ref |-> 0, args |-> None, attempted |-> {}]

NoProbe == [a |-> None, b |-> None, ida |-> << >>, idb |-> << >>]

\* the record ChatManager.streams holds for stream_id
Stream(stream_id) == heap[DictGet(streams, stream_id)]

\* stream ids in memory whose record is not saved
DirtyIds == {k \in DictKeys(streams) : ~Stream(k).saved}

Init ==
  /\ streams = << >>
  /\ heap = << >>
  /\ coll \in InitColls
  /\ now = 0
  /\ loaded = FALSE
  /\ saver = "sleeping"
  /\ first = [k \in StreamIds |-> NoFirst]
  /\ writeFailed = {}
  /\ ev = NoEv
  /\ probe = NoProbe

\* time.time() advances
Tick ==
  /\ now < MaxTime
  /\ now' = now + 1
  /\ ev' = NoEv
  /\ UNCHANGED <<streams, heap, coll, loaded, saver, first, writeFailed, probe>>

RECURSIVE Sum(_, _)
Sum(f, S) ==
  IF S = {} THEN 0
  ELSE LET x == CHOOSE y \in S : TRUE IN f[x] + Sum(f, S \ {x})

Created ==
  Sum([k \in StreamIds |->
         first[k].pending + first[k].returned + first[k].raised], StreamIds)

\* a caller creates a get_or_create_stream coroutine for the identity of
\* stream id k while no record of k is in memory or in the collection; the
\* event loop runs it later
Issue(k) ==
  /\ Created < NumCalls
  /\ ~DictHas(streams, k)
  /\ k \notin CollIds(coll)
  /\ first' = [first EXCEPT ![k].pending = @ + 1]
  /\ ev' = NoEv
  /\ UNCHANGED <<streams, heap, coll, now, loaded, saver, writeFailed, probe>>

\* ------------------------------------------------------------- _save_stream

\* _save_stream that never sets saved
SaveStreamNeverMarks(stream, cl, ok) ==
  IF ~stream.saved
    THEN IF ok
           THEN [stream |-> stream,
                 coll |-> UpdateOne(cl, stream.stream_id, ToDict(stream)),
                 called |-> TRUE, raised |-> FALSE]
           ELSE [stream |-> stream, coll |-> cl,
                 called |-> TRUE, raised |-> TRUE]
    ELSE [stream |-> stream, coll |-> cl, called |-> FALSE, raised |-> FALSE]

\* _save_stream without the test of saved
SaveStreamAlwaysWrites(stream, cl, ok) ==
  IF ok
    THEN [stream |-> [stream EXCEPT !.saved = TRUE],
          coll |-> UpdateOne(cl, stream.stream_id, ToDict(stream)),
          called |-> TRUE, raised |-> FALSE]
    ELSE [stream |-> stream, coll |-> cl, called |-> TRUE, raised |-> TRUE]

\* ChatManager._save_stream(stream) against collection cl; ok: update_one
\* does not raise.  Yields the stream, the collection, whether update_one was
\* called and whether it raised.
SaveStream(stream, cl, ok) ==
  IF ~stream.saved
    THEN IF ok
           THEN [stream |-> [stream EXCEPT !.saved = TRUE],
                 coll |-> UpdateOne(cl, stream.stream_id, ToDict(stream)),
                 called |-> TRUE, raised |-> FALSE]
           ELSE [stream |-> stream, coll |-> cl,
                 called |-> TRUE, raised |-> TRUE]
    ELSE [stream |-> stream, coll |-> cl, called |-> FALSE, raised |-> FALSE]

\* ----------------------------------------------------- get_or_create_stream

\* the same update with the active time set in place, saved left as it is
RefreshKeepsSaved(stream, a, t) ==
  [stream EXCEPT !.user_info = a.user_info,
                 !.group_info = IF Truthy(a.group_info) THEN a.group_info
                                                        ELSE @,
                 !.last_active_time = t]

\* lines 155-159 and 166-170: take the caller's user_info, take its group_info
\* only when one is given, refresh the active time
Refresh(stream, a, t) ==
  UpdateActiveTime(
    [stream EXCEPT !.user_info = a.user_info,
                   !.group_info = IF Truthy(a.group_info) THEN a.group_info
                                                          ELSE @],
    t)

\* the outcome of a call created by Issue, noted in first
Note(tracked, stream_id, ref, raised, wrote) ==
  IF ~tracked THEN first
  ELSE [first EXCEPT
          ![stream_id].pending = @ - 1,
          ![stream_id].returned = IF raised THEN @ ELSE @ + 1,
          ![stream_id].raised = IF raised THEN @ + 1 ELSE @,
          ![stream_id].rets = IF raised THEN @ ELSE @ \cup {ref},
          ![stream_id].writes = IF wrote THEN @ + 1 ELSE @]

\* lines 153-160: the stream is in memory
GocMemoryHit(a, stream_id, tracked) ==
  LET ref == DictGet(streams, stream_id)
  IN /\ DictHas(streams, stream_id)
     /\ heap' = [heap EXCEPT ![ref] = Refresh(heap[ref], a, now)]
     /\ first' = Note(tracked, stream_id, ref, FALSE, FALSE)
     /\ ev' = [NoEv EXCEPT !.op = "goc", !.path = "mem", !.ref = ref,
                           !.args = a]
     /\ UNCHANGED <<streams, coll, writeFailed>>

\* line 163: find_one raises; nothing catches it in get_or_create_stream
GocReadRaises(a, stream_id, tracked) ==
  /\ ~DictHas(streams, stream_id)
  /\ first' = Note(tracked, stream_id, 0, TRUE, FALSE)
  /\ ev' = [NoEv EXCEPT !.op = "goc", !.err = "read", !.raised = TRUE,
                        !.args = a]
  /\ UNCHANGED <<streams, heap, coll, writeFailed>>

\* lines 163-183: memory miss; the stream is loaded from its document or
\* constructed, put into streams and saved; writeOk: update_one does not
\* raise; a raise of update_one leaves get_or_create_stream uncaught
GocMemoryMiss(a, stream_id, tracked, writeOk) ==
  LET data   == FindOne(coll, stream_id)
      stream == IF Truthy(data)
                  THEN Refresh(FromDict(data, now), a, now)
                  ELSE ChatStreamInit(stream_id, a.platform, a.user_info,
                                      a.group_info, None, now)
      ref    == Len(heap) + 1
      sv     == SaveStream(stream, coll, writeOk)
  IN /\ ~DictHas(streams, stream_id)
     /\ streams' = DictSet(streams, stream_id, ref)
     /\ heap' = Append(heap, sv.stream)
     /\ coll' = sv.coll
     /\ writeFailed' = IF sv.raised THEN writeFailed \cup {stream_id}
                       ELSE IF sv.called THEN writeFailed \ {stream_id}
                       ELSE writeFailed
     /\ first' = Note(tracked, stream_id, ref, sv.raised,
                      sv.called /\ ~sv.raised)
     /\ ev' = [NoEv EXCEPT
                 !.op = "goc", !.ref = ref, !.args = a,
                 !.path = IF Truthy(data) THEN "store" ELSE "new",
                 !.err = IF sv.raised THEN "write" ELSE "none",
                 !.raised = sv.raised]

\* line 150 with user_info None: _generate_stream_id raises AttributeError,
\* which leaves get_or_create_stream
GocDeriveRaises(a) ==
  /\ ev' = [NoEv EXCEPT !.op = "goc", !.err = "derive", !.raised = TRUE,
                        !.args = a]
  /\ UNCHANGED <<streams, heap, coll, first, writeFailed>>

\* the event loop runs a get_or_create_stream coroutine with arguments a, to
\* its return or its raise; tracked: the coroutine is one that Issue created
GetOrCreateStream(a, tracked) ==
  /\ IF NoUserId(a.user_info)
       THEN ~tracked /\ GocDeriveRaises(a)
       ELSE LET stream_id ==
                  GenerateStreamId(a.platform, a.user_info, a.group_info)
            IN /\ tracked => first[stream_id].pending > 0
               /\ \/ GocMemoryHit(a, stream_id, tracked)
                  \/ GocReadRaises(a, stream_id, tracked)
                  \/ \E writeOk \in BOOLEAN :
                       GocMemoryMiss(a, stream_id, tracked, writeOk)
  /\ UNCHANGED <<now, loaded, saver, probe>>

\* -------------------------------------- _save_all_streams, _auto_save_task

\* _save_all_streams that returns after the first stream
RECURSIVE SaveAllFromFirstOnly(_, _, _, _)
SaveAllFromFirstOnly(i, h, cl, failAt) ==
  IF i > Len(streams) \/ i > 1
    THEN [heap |-> h, coll |-> cl, attempted |-> {}, written |-> {},
          raised |-> FALSE]
    ELSE LET ref == streams[i].v
             sv  == SaveStream(h[ref], cl, i /= failAt)
         IN IF sv.raised
              THEN [heap |-> h, coll |-> cl, attempted |-> {streams[i].k},
                    written |-> {}, raised |-> TRUE]
              ELSE LET rest == SaveAllFromFirstOnly(
                                 i + 1, [h EXCEPT ![ref] = sv.stream],
                                 sv.coll, failAt)
                       this == IF sv.called THEN {streams[i].k} ELSE {}
                   IN [rest EXCEPT !.attempted = @ \cup this,
                                   !.written = @ \cup this]

\* _save_all_streams from position i of streams.values(), on heap h and
\* collection cl; failAt: the position whose update_one raises (0: none).
\* The raise leaves the loop: the streams after failAt are not visited.
RECURSIVE SaveAllFrom(_, _, _, _)
SaveAllFrom(i, h, cl, failAt) ==
  IF i > Len(streams)
    THEN [heap |-> h, coll |-> cl, attempted |-> {}, written |-> {},
          raised |-> FALSE]
    ELSE LET ref == streams[i].v
             After(sv) ==
               IF sv.raised
                 THEN [heap |-> h, coll |-> cl, attempted |-> {streams[i].k},
                       written |-> {}, raised |-> TRUE]
                 ELSE LET rest == SaveAllFrom(i + 1,
                                              [h EXCEPT ![ref] = sv.stream],
                                              sv.coll, failAt)
                          this == IF sv.called THEN {streams[i].k} ELSE {}
                      IN [rest EXCEPT !.attempted = @ \cup this,
                                      !.written = @ \cup this]
         \* the stream and the collection are taken as they are before
         \* _save_stream runs on them
         IN CHOOSE r \in {After(sv) :
                            sv \in {SaveStream(s, c, i /= failAt) :
                                      s \in {h[ref]}, c \in {cl}}} : TRUE

SaveAllStreams(failAt) == SaveAllFrom(1, heap, coll, failAt)

\* _auto_save_task without its try/except: an exception of a round ends it
SaverAfterUncaught(raised) == IF raised THEN "dead" ELSE "sleeping"

\* lines 103-109: the try/except is inside the while loop, so the task goes
\* back to its sleep whether or not the round raised
SaverAfter(raised) == "sleeping"

\* one round of _auto_save_task after its sleep: _save_all_streams, an
\* exception is logged and the loop goes on
AutoSave ==
  \E failAt \in 0..Len(streams) :
    /\ saver = "sleeping"
    /\ failAt /= 0 => ~heap[streams[failAt].v].saved
    /\ \E r \in {SaveAllStreams(failAt)} :
         /\ heap' = r.heap
         /\ coll' = r.coll
         /\ writeFailed' = IF r.raised
                             THEN (writeFailed \ r.written)
                                  \cup {streams[failAt].k}
                             ELSE writeFailed \ r.written
         /\ ev' = [NoEv EXCEPT !.op = "saveAll",
                               !.err = IF r.raised THEN "write" ELSE "none",
                               !.attempted = r.attempted]
         /\ saver' = SaverAfter(r.raised)
    /\ UNCHANGED <<streams, now, loaded, first, probe>>

\* ------------------------------------------- load_all_streams, _initialize

\* an object that streams no longer refers to: the manager cannot reach it
\* again, its place in the heap stays taken and its fields are not followed
Dropped == [cls |-> "dropped"]

\* heap h after d[key] is set to a new object: the object d had for key is
\* dropped
Release(h, d, key) ==
  IF DictHas(d, key) THEN [h EXCEPT ![DictGet(d, key)] = Dropped] ELSE h

\* load_all_streams over the first n documents of find({}), from document i
RECURSIVE LoadFrom(_, _, _, _)
LoadFrom(i, n, d, h) ==
  IF i > n
    THEN [streams |-> d, heap |-> h]
    ELSE LET stream == FromDict(coll[i], now)
         IN LoadFrom(i + 1, n, DictSet(d, stream.stream_id, Len(h) + 1),
                     Append(Release(h, d, stream.stream_id), stream))

LoadAllStreams(n) == LoadFrom(1, n, streams, heap)

\* the _initialize task, created by ChatManager.__init__, runs once:
\* load_all_streams, an exception is logged.  n: the documents read before
\* find or its cursor raised (all of them when nothing raised)
Initialize ==
  /\ ~loaded
  /\ \E n \in 0..Len(coll), raised \in BOOLEAN :
       /\ n < Len(coll) => raised
       /\ raised => n < Len(coll) \/ n = 0
       /\ LET r == LoadAllStreams(n)
          IN /\ streams' = r.streams
             /\ heap' = r.heap
       /\ ev' = [NoEv EXCEPT !.op = "load",
                             !.err = IF raised THEN "read" ELSE "none"]
  /\ loaded' = TRUE
  /\ UNCHANGED <<coll, now, saver, first, writeFailed, probe>>

\* ------------------------------------------------------------ specification

\* the cache under calls that run as soon as they are made
Next ==
  \/ Tick
  \/ \E a \in CallArgs : GetOrCreateStream(a, FALSE)
  \/ AutoSave
  \/ Initialize

Spec == Init /\ [][Next]_vars

\* a round of _save_all_streams in which the write of stream_id succeeds
SavedBy(stream_id) ==
  /\ stream_id \in DirtyIds
  /\ AutoSave
  /\ stream_id \in ev'.attempted
  /\ heap'[DictGet(streams, stream_id)].saved

\* _auto_save_task never leaves its loop and its sleep ends, so rounds keep
\* coming; the store is one whose writes succeed in the end: a stream whose
\* write stays due is written by some round
SpecFair ==
  /\ Init /\ [][Next]_vars
  /\ \A stream_id \in StreamIds : WF_vars(SavedBy(stream_id))

\* the start of the process: calls for identities without a record are
\* created and the loop runs them, the _initialize task and the save task in
\* any order
NextFirst ==
  \/ \E k \in StreamIds : Issue(k)
  \/ \E a \in CallArgs : GetOrCreateStream(a, TRUE)
  \/ AutoSave
  \/ Initialize

SpecFirst == Init /\ [][NextFirst]_vars

\* a lookup that falls through to the store on a miss
GetStreamLoads(stream_id) ==
  LET data == FindOne(coll, stream_id)
      hit  == DictHas(streams, stream_id)
      load == ~hit /\ Truthy(data)
      ref  == IF hit THEN DictGet(streams, stream_id)
              ELSE IF load THEN Len(heap) + 1 ELSE 0
  IN /\ heap' = IF load THEN Append(heap, FromDict(data, now)) ELSE heap
     /\ streams' = IF load THEN DictSet(streams, stream_id, ref) ELSE streams
     /\ ev' = [NoEv EXCEPT !.op = "get", !.ref = ref,
                           !.args = [stream_id |-> stream_id]]
     /\ UNCHANGED <<coll, now, loaded, saver, first, writeFailed, probe>>

\* ChatManager.get_stream: self.streams.get(stream_id); ref 0 is None
GetStream(stream_id) ==
  /\ ev' = [NoEv EXCEPT !.op = "get",
                        !.ref = IF DictHas(streams, stream_id)
                                  THEN DictGet(streams, stream_id) ELSE 0,
                        !.args = [stream_id |-> stream_id]]
  /\ UNCHANGED <<streams, heap, coll, now, loaded, saver, first, writeFailed,
                 probe>>

\* ChatManager.get_stream_by_info: derive the id, then self.streams.get
GetStreamByInfo(a) ==
  LET stream_id == GenerateStreamId(a.platform, a.user_info, a.group_info)
  IN /\ ev' = [NoEv EXCEPT !.op = "getByInfo",
                           !.ref = IF DictHas(streams, stream_id)
                                     THEN DictGet(streams, stream_id) ELSE 0,
                           !.args = a]
     /\ UNCHANGED <<streams, heap, coll, now, loaded, saver, first, writeFailed,
                    probe>>

\* the cache with its two lookups, at one clock value
NextLookup ==
  \/ \E a \in CallArgs : GetOrCreateStream(a, FALSE)
  \/ AutoSave
  \/ Initialize
  \/ \E stream_id \in StreamIds : GetStream(stream_id)
  \/ \E a \in CallArgs : GetStreamByInfo(a)

SpecLookup == Init /\ [][NextLookup]_vars

\* calls whose user identifier is missing: user_info is None, or its user_id
\* is None
InvalidArgs ==
  [platform   : Platforms,
   user_info  : {None, UserInfo(NoneStr, "a")},
   group_info : {None} \cup {GroupInfo(g) : g \in GroupIds}]

\* the cache under calls without a user identifier, at one clock value
NextInvalid ==
  \/ \E a \in InvalidArgs : GetOrCreateStream(a, FALSE)
  \/ AutoSave
  \/ Initialize

SpecInvalid == Init /\ [][NextInvalid]_vars

\* ------------------------------------- identity derivation on its own
\* _generate_stream_id applied to pairs of identity tuples whose components
\* contain the separator and the no-group word

IdPlatforms == {<<"a">>, <<"a", "_", "b">>}

IdUserIds == {<<"b">>, <<"c">>, <<"b", "_", "c">>}

IdGroups == {None, GroupInfo(<<"c">>), GroupInfo(Private)}

IdTuples ==
  [platform   : IdPlatforms,
   user_info  : {UserInfo(u, "a") : u \in IdUserIds},
   group_info : IdGroups]

Derive ==
  /\ \E a \in IdTuples, b \in IdTuples :
       probe' = [a |-> a, b |-> b,
                 ida |-> GenerateStreamId(a.platform, a.user_info, a.group_info),
                 idb |-> GenerateStreamId(b.platform, b.user_info, b.group_info)]
  /\ UNCHANGED <<streams, heap, coll, now, loaded, saver, first, writeFailed,
                 ev>>

NextId == Derive

SpecId == Init /\ [][NextId]_vars

\* ===================================================================== claims

\* C1: at-most-one-record.  When two or more get_or_create_stream calls for
\* one identity, all created while no record of it was in memory or in the
\* collection, have all returned, streams holds one record for the id,
\* exactly one update_one of these calls reached the collection, and all of
\* them returned the same ChatStream object.
C1_AtMostOneRecord ==
  \A k \in StreamIds :
    (first[k].returned >= 2 /\ first[k].pending = 0 /\ first[k].raised = 0)
    => /\ Cardinality({i \in 1..Len(streams) : streams[i].k = k}) = 1
       /\ first[k].writes = 1
       /\ Cardinality(first[k].rets) = 1

C3_CleanImpliesPersisted ==
  \A k \in DictKeys(streams) :
    Stream(k).saved => FindOne(coll, k) = ToDict(Stream(k))

\* _save_all_streams has just run and left saved a stream that
\* get_or_create_stream had refreshed after its creation
C3_Witness ==
  /\ ev.op = "saveAll"
  /\ \E k \in DictKeys(streams) :
       /\ Stream(k).saved
       /\ Stream(k).last_active_time > Stream(k).create_time

\* C4: a failing update_one in the save step of get_or_create_stream is not
\* raised to the caller: the call returns the stream.
C4_WriteFailureNotRaised ==
  (ev.op = "goc" /\ ev.err = "write") => ~ev.raised

\* C5: a stream whose latest store write failed is in streams and unsaved,
\* and the next _save_all_streams calls update_one for it again.
C5_FailedWriteRetried ==
  [][/\ \A k \in writeFailed' :
          DictHas(streams', k) /\ ~heap'[DictGet(streams', k)].saved
     /\ ev'.op = "saveAll" => writeFailed \subseteq ev'.attempted]_vars

\* C6: a failing find_one on a memory miss counts as not found: the call
\* raises nothing and returns a stream, which is in streams.
C6_ReadFailureIsNotFound ==
  (ev.op = "goc" /\ ev.err = "read")
  => ~ev.raised /\ DictHas(streams, ArgsId(ev.args))

\* C7: liveness monotonicity.  A get_or_create_stream step that finds the
\* stream in memory, or its document in the collection, leaves
\* last_active_time at least what it was and create_time what it was; a step
\* that constructs a new stream sets create_time = last_active_time.
C7_LivenessMonotonic ==
  [][ev'.op = "goc" =>
       LET r == ev'.ref
           d == FindOne(coll, ArgsId(ev'.args))
       IN /\ ev'.path = "mem" =>
               /\ heap'[r].last_active_time >= heap[r].last_active_time
               /\ heap'[r].create_time = heap[r].create_time
          /\ ev'.path = "store" =>
               /\ heap'[r].last_active_time >= d["last_active_time"]
               /\ heap'[r].create_time = d["create_time"]
          /\ ev'.path = "new" =>
               heap'[r].create_time = heap'[r].last_active_time]_vars

\* a call has just loaded a stream from a document written at an earlier
\* time and refreshed it
C7_Witness ==
  /\ ev.op = "goc" /\ ev.path = "store"
  /\ heap[ev.ref].create_time < now
  /\ heap[ev.ref].last_active_time = now

\* C8: the last_active_time of the stream that streams holds for an id never
\* decreases.
C8_LastActiveNeverDecreases ==
  [][\A k \in DictKeys(streams) :
       /\ DictHas(streams', k)
       /\ heap'[DictGet(streams', k)].last_active_time
            >= heap[DictGet(streams, k)].last_active_time]_vars

\* C9: group attach without regression.  When a call with a group_info has
\* returned and the next call, for the same platform and user with no
\* group_info, returns, the stream it returns has that group_info.
C9_GroupNotErased ==
  [][(/\ ev.op = "goc" /\ ~ev.raised
      /\ ev'.op = "goc" /\ ~ev'.raised
      /\ Truthy(ev.args.group_info)
      /\ ~Truthy(ev'.args.group_info)
      /\ ev'.args.platform = ev.args.platform
      /\ ev'.args.user_info.user_id = ev.args.user_info.user_id)
     => heap'[ev'.ref].group_info = ev.args.group_info]_vars

\* C10: uniqueness of the derivation.  Two identity tuples that differ in
\* platform, user id or group derive different stream ids.
C10_DistinctTuplesDistinctIds ==
  probe.a /= probe.b => probe.ida /= probe.idb


\* the user identifier of a call's user_info is missing
MissingUser(user_info) == NoUserId(user_info) \/ user_info.user_id = NoneStr

\* C11: derivation error.  A get_or_create_stream call whose user identifier
\* is missing ends by an error of the derivation; it creates and returns no
\* stream.
C11_MissingUserRejected ==
  (ev.op = "goc" /\ MissingUser(ev.args.user_info))
  => ev.raised /\ ev.err = "derive" /\ ev.ref = 0


\* the id a lookup event asked for
LookupId(e) ==
  IF e.op = "get" THEN e.args.stream_id
  ELSE GenerateStreamId(e.args.platform, e.args.user_info, e.args.group_info)

\* C12: get_stream and get_stream_by_info are pure lookups.  A lookup step
\* leaves the map, every stream object, the store and the clock as they were,
\* fails on no store call, and returns the map's entry for the id, None when
\* the map has none, whatever the store holds.
C12_LookupsArePure ==
  [][ev'.op \in {"get", "getByInfo"}
     => /\ UNCHANGED <<streams, heap, coll, now, loaded, writeFailed>>
        /\ ev'.err = "none" /\ ~ev'.raised
        /\ ev'.ref = IF DictHas(streams, LookupId(ev'))
                       THEN DictGet(streams, LookupId(ev')) ELSE 0]_vars

\* a lookup returned None for an id whose document is in the store
C12_Witness ==
  /\ ev.op \in {"get", "getByInfo"}
  /\ ev.ref = 0
  /\ LookupId(ev) \in CollIds(coll)


\* C13: store fall-through, hydrated or not.  A get_or_create_stream step
\* for an id that has a document in the store and no entry in memory never
\* constructs a fresh stream; unless the store read raises, it loads the
\* document: the stream keeps the document's stream_id and create_time and is
\* the map's entry for the id.  A raising read changes nothing.
C13_StoreFallThrough ==
  [][LET stream_id == ArgsId(ev'.args)
     IN (/\ ev'.op = "goc"
         /\ stream_id \in CollIds(coll)
         /\ ~DictHas(streams, stream_id))
        => /\ ev'.path /= "new"
           /\ ev'.err = "read" => UNCHANGED <<streams, heap, coll>>
           /\ ev'.err /= "read"
              => /\ ev'.path = "store"
                 /\ DictHas(streams', stream_id)
                 /\ DictGet(streams', stream_id) = ev'.ref
                 /\ heap'[ev'.ref].stream_id = stream_id
                 /\ \E i \in 1..Len(coll) :
                      /\ coll[i]["stream_id"] = stream_id
                      /\ heap'[ev'.ref].create_time = coll[i]["create_time"]]_vars

\* a call loaded a stream older than the clock from the store, hydration not
\* having run yet
C13_Witness ==
  /\ ev.op = "goc" /\ ev.path = "store" /\ ~ev.raised
  /\ ~loaded
  /\ heap[ev.ref].create_time < now


\* the fields of a stream that its document carries
Persisted(stream) ==
  <<stream.stream_id, stream.platform, stream.user_info, stream.group_info,
    stream.create_time, stream.last_active_time>>

\* C14: hydration round trip.  A load_all_streams that read every document
\* leaves, for each document, a map entry under the document's stream_id
\* whose serialized fields are the document's; and where the document had
\* been written from a stream of this run that is still saved, the loaded
\* stream has that stream's id, platform, user_info, group_info (None
\* included), create_time and last_active_time.
C14_HydrationRoundTrip ==
  [][(ev'.op = "load" /\ ev'.err = "none")
     => \A i \in 1..Len(coll) :
          LET stream_id == coll[i]["stream_id"]
          IN /\ DictHas(streams', stream_id)
             /\ LET new == heap'[DictGet(streams', stream_id)]
                IN /\ new.stream_id = stream_id
                   /\ ToDict(new) = coll[i]
                   /\ (DictHas(streams, stream_id) /\ Stream(stream_id).saved)
                      => Persisted(new) = Persisted(Stream(stream_id))]_vars

\* hydration replaced a stream that had been persisted in this run, without
\* a group and with a last_active_time after its create_time
C14_Witness ==
  /\ ev.op = "load" /\ ev.err = "none"
  /\ \E stream_id \in DictKeys(streams) :
       /\ Stream(stream_id).group_info = None
       /\ Stream(stream_id).last_active_time > Stream(stream_id).create_time


\* C15: _save_all_streams persists every unsaved stream.  A round of
\* _save_all_streams calls update_one for every stream that was unsaved when
\* it started, and a raise of update_one for one stream leaves no other such
\* stream unwritten: at most one of them is still unsaved after the round.
C15_PersistAllWritesEveryDirty ==
  [][ev'.op = "saveAll"
     => /\ DirtyIds \subseteq ev'.attempted
        /\ \A j, k \in DirtyIds :
             (~heap'[DictGet(streams, j)].saved
              /\ ~heap'[DictGet(streams, k)].saved) => j = k]_vars


\* C16: dirty/clean cycle.  A stream constructed by get_or_create_stream is
\* saved after the call exactly when its update_one did not raise; a round of
\* _save_all_streams that did not raise leaves every stream it wrote saved; a
\* memory hit leaves the stream unsaved; a stream that is in the map unsaved
\* becomes saved only by a write of _save_all_streams; and a stream that is
\* saved before and after a step has the same fields.
C16_DirtyCleanCycle ==
  [][/\ (ev'.op = "goc" /\ ev'.path = "new")
        => (heap'[ev'.ref].saved <=> ev'.err = "none")
     /\ (ev'.op = "goc" /\ ev'.path = "mem") => ~heap'[ev'.ref].saved
     /\ (ev'.op = "saveAll" /\ ev'.err = "none")
        => \A k \in ev'.attempted : heap'[DictGet(streams', k)].saved
     /\ \A k \in DictKeys(streams) \cap DictKeys(streams') :
          LET old == heap[DictGet(streams, k)]
              new == heap'[DictGet(streams', k)]
          IN /\ (~old.saved /\ new.saved)
                => (ev'.op = "saveAll" /\ k \in ev'.attempted)
             /\ (old.saved /\ new.saved) => new = old]_vars

\* a memory hit made unsaved a stream that had been persisted: its document
\* is in the store and no longer equals it
C16_Witness ==
  /\ ev.op = "goc" /\ ev.path = "mem"
  /\ ~heap[ev.ref].saved
  /\ heap[ev.ref].stream_id \in CollIds(coll)
  /\ FindOne(coll, heap[ev.ref].stream_id) /= ToDict(heap[ev.ref])


\* the documents of collection cl under stream_id
DocsOf(cl, stream_id) == {i \in 1..Len(cl) : cl[i]["stream_id"] = stream_id}

\* C17: _save_stream is an idempotent upsert that skips saved streams.  A
\* round of _save_all_streams calls update_one only for unsaved streams and
\* leaves every saved stream and its document as they were; a round that
\* follows a round in which nothing raised writes nothing and changes
\* nothing; and a stream written by a round has exactly one document, equal
\* to its to_dict.
C17_SaveIsIdempotentUpsert ==
  [][ev'.op = "saveAll"
     => /\ ev'.attempted \subseteq DirtyIds
        /\ \A k \in DictKeys(streams) \ DirtyIds :
             /\ heap'[DictGet(streams, k)] = heap[DictGet(streams, k)]
             /\ FindOne(coll', k) = FindOne(coll, k)
        /\ (ev.op = "saveAll" /\ ev.err = "none")
           => (ev'.attempted = {} /\ coll' = coll /\ heap' = heap)
        /\ \A k \in ev'.attempted :
             heap'[DictGet(streams, k)].saved
             => /\ Cardinality(DocsOf(coll', k)) = 1
                /\ FindOne(coll', k) = ToDict(heap'[DictGet(streams, k)])]_vars

\* a round of _save_all_streams over streams that are all saved and have
\* their documents called update_one for none
C17_Witness ==
  /\ ev.op = "saveAll" /\ ev.err = "none" /\ ev.attempted = {}
  /\ DictKeys(streams) /= {}
  /\ \A k \in DictKeys(streams) :
       Stream(k).saved /\ Cardinality(DocsOf(coll, k)) = 1


\* the stream of stream_id is saved and its document equals it
Consistent(stream_id) ==
  /\ DictHas(streams, stream_id)
  /\ Stream(stream_id).saved
  /\ FindOne(coll, stream_id) = ToDict(Stream(stream_id))

\* C18: eventual consistency.  With rounds of _save_all_streams that keep
\* coming and writes that succeed in the end, a stream that is unsaved is
\* later saved with its document equal to it.
C18_EventuallyConsistent ==
  \A stream_id \in StreamIds :
    (stream_id \in DirtyIds) ~> Consistent(stream_id)

\* a round wrote a stream that get_or_create_stream had updated after its
\* construction, and left it saved and equal to its document
C18_Witness ==
  /\ ev.op = "saveAll" /\ ev.attempted /= {}
  /\ \E stream_id \in ev.attempted :
       /\ Consistent(stream_id)
       /\ Stream(stream_id).last_active_time > Stream(stream_id).create_time


\* C19: background failures are not fatal.  After a load_all_streams that
\* raised, the exception has gone no further, the map holds each of its
\* streams under the stream's own id, and get_or_create_stream can run for
\* every identity; after a round of _save_all_streams that
\* raised, _auto_save_task is still in its loop and its next round can run.
C19_BackgroundFailuresNotFatal ==
  /\ saver = "sleeping"
  /\ (ev.op = "load" /\ ev.err = "read")
     => /\ ~ev.raised
        /\ \A k \in DictKeys(streams) : Stream(k).stream_id = k
        /\ \A a \in CallArgs : ENABLED GetOrCreateStream(a, FALSE)
  /\ (ev.op = "saveAll" /\ ev.err = "write") => ENABLED AutoSave

\* a round of _save_all_streams raised in a process whose hydration had
\* failed before it read every document
C19_Witness ==
  /\ ev.op = "saveAll" /\ ev.err = "write"
  /\ loaded
  /\ CollIds(coll) \ DictKeys(streams) /= {}


\* C20: no redundant writes.  A round of _save_all_streams calls update_one
\* for a stream only when the stream's to_dict differs from the document
\* stored under its id.
C20_NoRedundantWrites ==
  [][ev'.op = "saveAll"
     => \A k \in ev'.attempted : FindOne(coll, k) /= ToDict(Stream(k))]_vars

====
